---- MODULE Spec2Model ----
(***************************************************************************)
(* Model of babylon-tbv-rust-wasm (rust-src/src): the multisig script      *)
(* assembler (connectors/mod.rs), the PeginPayoutConnector                 *)
(* (connectors/pegin_payout.rs) and the unfunded PegIn transaction builder *)
(* (transactions/pegin.rs).                                                *)
(*                                                                         *)
(* Scripts are byte sequences, as in the code (Vec<u8> / ScriptBuf).       *)
(* X-only public keys are 32-byte sequences.  Strings (key hex, network    *)
(* names) are sequences of one-character strings.  Hashes and the taproot  *)
(* tweak are symbolic (collision-free) records of their preimage.          *)
(***************************************************************************)
EXTENDS Integers, Sequences, FiniteSets, TLC

VARIABLES connector, call, ret

vars == <<connector, call, ret>>

(***************************************************************************)
(* Bounds of the model.                                                    *)
(***************************************************************************)
MaxKeepers == 2
MaxChallengers == 2
MaxMultisigKeys == 3
MaxKeeperStrs == 2
MaxChallengerStrs == 1

(***************************************************************************)
(* Results: Rust's Result<T, E>, and a panic (a failed expect()).          *)
(***************************************************************************)
Ok(v) == [tag |-> "Ok", val |-> v]

Err(e) == [tag |-> "Err", err |-> e]

Panic(m) == [tag |-> "Panic", msg |-> m]

Pending == [tag |-> "Pending"]

(***************************************************************************)
(* Generic helpers.                                                        *)
(***************************************************************************)
SeqsUpTo(S, lo, hi) == UNION {[1..n -> S] : n \in lo..hi}

Range(s) == {s[i] : i \in 1..Len(s)}

RECURSIVE Concat(_)
Concat(ss) == IF ss = <<>> THEN <<>> ELSE Head(ss) \o Concat(Tail(ss))

(***************************************************************************)
(* Key material.  Valid x-only keys (x-coordinates of G, 2G, 3G, 4G on     *)
(* secp256k1), the crate's unspendable key, and one 32-byte value that is  *)
(* no x-coordinate (it exceeds the field size).                            *)
(***************************************************************************)
KeyG == <<121, 190, 102, 126, 249, 220, 187, 172, 85, 160, 98, 149, 206, 135, 11, 7,
          2, 155, 252, 219, 45, 206, 40, 217, 89, 242, 129, 91, 22, 248, 23, 152>>

Key2G == <<198, 4, 127, 148, 65, 237, 125, 109, 48, 69, 64, 110, 149, 192, 124, 216,
           92, 119, 142, 75, 140, 239, 60, 167, 171, 172, 9, 185, 92, 112, 158, 229>>

Key3G == <<249, 48, 138, 1, 146, 88, 195, 16, 73, 52, 79, 133, 248, 157, 82, 41,
           181, 49, 200, 69, 131, 111, 153, 176, 134, 1, 241, 19, 188, 224, 54, 249>>

NotOnCurve == <<255, 255, 255, 255, 255, 255, 255, 255, 255, 255, 255, 255, 255, 255, 255, 255,
                255, 255, 255, 255, 255, 255, 255, 255, 255, 255, 255, 254, 255, 255, 252, 48>>

\* lib.rs: UNSPENDABLE_PUBKEY_STR, parsed once.
UNSPENDABLE_PUBKEY == <<80, 146, 155, 116, 193, 160, 73, 84, 183, 139, 75, 96, 53, 233, 122, 94,
                        7, 138, 90, 15, 40, 236, 150, 213, 71, 191, 238, 154, 206, 128, 58, 192>>

Key4G == <<228, 147, 219, 241, 193, 13, 128, 243, 88, 30, 73, 4, 147, 11, 20, 4,
           204, 108, 19, 144, 14, 224, 117, 132, 116, 250, 148, 171, 232, 196, 205, 19>>

\* The values of type XOnlyPublicKey the model draws from.
Keys == {KeyG, Key2G, Key3G}

KeeperKeys == {KeyG, Key2G}

ChallengerKeys == {Key2G, Key3G}

(***************************************************************************)
(* Curve membership, as XOnlyPublicKey::from_slice decides it: the value   *)
(* x is below the field prime p = 2^256 - 2^32 - 977 and x^3 + 7 is a      *)
(* square modulo p.  256-bit numbers are 17 limbs of 16 bits, least        *)
(* significant first; squareness is the Jacobi symbol (p is prime).        *)
(***************************************************************************)
LimbBase == 256 * 256

NumLimbs == 16 + 1

RECURSIVE LimbsFromBytes(_, _)
LimbsFromBytes(bytes, i) ==
    IF i > NumLimbs THEN <<>>
    ELSE <<IF i = NumLimbs THEN 0 ELSE 256 * bytes[33 - 2 * i] + bytes[34 - 2 * i]>>
             \o LimbsFromBytes(bytes, i + 1)

BigFromBytes(bytes) == LimbsFromBytes(bytes, 1)

RECURSIVE SmallLimbs(_, _)
SmallLimbs(n, i) == IF i > NumLimbs THEN <<>> ELSE <<IF i = 1 THEN n ELSE 0>> \o SmallLimbs(n, i + 1)

BigSmall(n) == SmallLimbs(n, 1)

RECURSIVE PrimeLimbs(_)
PrimeLimbs(i) ==
    IF i > NumLimbs THEN <<>>
    ELSE <<IF i = 1 THEN LimbBase - 977
           ELSE IF i = 3 THEN LimbBase - 2
           ELSE IF i = NumLimbs THEN 0
           ELSE LimbBase - 1>> \o PrimeLimbs(i + 1)

FieldPrime == PrimeLimbs(1)

BigIsZero(a) == \A i \in 1..NumLimbs : a[i] = 0

BigLess(a, b) ==
    \E i \in 1..NumLimbs : a[i] < b[i] /\ \A j \in (i + 1)..NumLimbs : a[j] = b[j]

RECURSIVE AddLimbs(_, _, _, _)
AddLimbs(a, b, i, carry) ==
    IF i > NumLimbs THEN <<>>
    ELSE LET s == a[i] + b[i] + carry
         IN  <<s % LimbBase>> \o AddLimbs(a, b, i + 1, s \div LimbBase)

BigAdd(a, b) == AddLimbs(a, b, 1, 0)

RECURSIVE SubLimbs(_, _, _, _)
SubLimbs(a, b, i, borrow) ==
    IF i > NumLimbs THEN <<>>
    ELSE LET d == a[i] - b[i] - borrow
         IN  <<IF d < 0 THEN d + LimbBase ELSE d>>
                 \o SubLimbs(a, b, i + 1, IF d < 0 THEN 1 ELSE 0)

BigSub(a, b) == SubLimbs(a, b, 1, 0)

RECURSIVE HalfLimbs(_, _)
HalfLimbs(a, i) ==
    IF i > NumLimbs THEN <<>>
    ELSE <<(a[i] \div 2) + (IF i < NumLimbs THEN (a[i + 1] % 2) * (LimbBase \div 2) ELSE 0)>>
             \o HalfLimbs(a, i + 1)

BigHalf(a) == HalfLimbs(a, 1)

AddMod(a, b) ==
    LET s == BigAdd(a, b)
    IN  IF BigLess(s, FieldPrime) THEN s ELSE BigSub(s, FieldPrime)

RECURSIVE MulBits(_, _, _, _)
MulBits(acc, a, w, j) ==
    IF j = 0 \/ acc = <<>> THEN acc
    ELSE LET dbl == AddMod(acc, acc)
         IN  MulBits(IF (w \div (2 ^ (j - 1))) % 2 = 1 THEN AddMod(dbl, a) ELSE dbl,
                     a, w, j - 1)

RECURSIVE MulLimbs(_, _, _, _)
MulLimbs(acc, a, b, i) ==
    IF i = 0 \/ acc = <<>> THEN acc
    ELSE MulLimbs(MulBits(acc, a, b[i], 16), a, b, i - 1)

MulMod(a, b) == MulLimbs(BigSmall(0), a, b, NumLimbs - 1)

TwoSign(n) == IF n[1] % 8 \in {3, 5} THEN -1 ELSE 1

JacobiStep(s) ==
    IF s.a[1] % 2 = 0
    THEN [a |-> BigHalf(s.a), n |-> s.n, t |-> s.t * TwoSign(s.n)]
    ELSE IF BigLess(s.a, s.n)
    THEN [a |-> s.n, n |-> s.a,
          t |-> IF s.a[1] % 4 = 3 /\ s.n[1] % 4 = 3 THEN 0 - s.t ELSE s.t]
    ELSE [a |-> BigHalf(BigSub(s.a, s.n)), n |-> s.n, t |-> s.t * TwoSign(s.n)]

RECURSIVE JacobiLoop(_, _, _)
JacobiLoop(s, level, k) ==
    IF k = 0 \/ BigIsZero(s.a) THEN s
    ELSE JacobiLoop(IF level = 0 THEN JacobiStep(s) ELSE JacobiLoop(s, level - 1, 11),
                    level, k - 1)

Jacobi(a, n) ==
    LET s == JacobiLoop([a |-> a, n |-> n, t |-> 1], 2, 11)
    IN  IF BigIsZero(s.a) /\ s.n = BigSmall(1) THEN s.t ELSE 0

IsXCoordinate(bytes) ==
    LET x == BigFromBytes(bytes)
    IN  /\ BigLess(x, FieldPrime)
        /\ LET c == AddMod(MulMod(MulMod(x, x), x), BigSmall(7))
           IN  BigIsZero(c) \/ Jacobi(c, FieldPrime) = 1

\* The 32-byte values the key strings of the specifications decode to; their
\* curve membership is computed once.
TabulatedXCoords == {KeyG, Key2G, Key3G, Key4G, NotOnCurve}

ValidXCoords == {x \in TabulatedXCoords : IsXCoordinate(x)}

IsValidXCoord(bytes) ==
    IF bytes \in TabulatedXCoords THEN bytes \in ValidXCoords
    ELSE IsXCoordinate(bytes)

(***************************************************************************)
(* Script bytes: opcodes and the pushes the script! macro compiles to.     *)
(***************************************************************************)
OP_0 == 0

OP_PUSHDATA1 == 76

OP_TRUE == 81

OP_NUMEQUAL == 156

OP_NUMEQUALVERIFY == 157

OP_CHECKSIG == 172

OP_CHECKSIGVERIFY == 173

OP_CHECKSIGADD == 186

\* Builder::push_slice for data shorter than 76 bytes: the length, then the data.
PushSlice(data) == <<Len(data)>> \o data

\* script! { { key } }: push of the 32-byte serialization of an x-only key.
PushKey(pk) == PushSlice(pk)

\* Minimal little-endian magnitude bytes of n > 0.
RECURSIVE LeBytes(_)
LeBytes(n) == IF n = 0 THEN <<>> ELSE <<n % 256>> \o LeBytes(n \div 256)

\* Script-number encoding of n >= 0: little-endian, a 0x00 appended when the
\* top bit of the last byte is set (it would read as the sign).
ScriptIntVec(n) ==
    LET b == LeBytes(n)
    IN  IF b # <<>> /\ b[Len(b)] >= 128 THEN b \o <<0>> ELSE b

\* script! { { n as i64 } }: Builder::push_int.
PushInt(n) ==
    IF n \in 1..16 THEN <<n - 1 + OP_TRUE>>
    ELSE IF n = 0 THEN <<OP_0>>
    ELSE PushSlice(ScriptIntVec(n))

(***************************************************************************)
(* connectors/mod.rs                                                       *)
(***************************************************************************)
\* Mutant: the loop appends OP_CHECKSIG where the code appends OP_CHECKSIGADD.
RECURSIVE ExtendCheckSigAdd_CheckSig(_, _)
ExtendCheckSigAdd_CheckSig(script_bytes, pks) ==
    IF pks = <<>> THEN script_bytes
    ELSE ExtendCheckSigAdd_CheckSig(script_bytes \o PushKey(Head(pks)) \o <<OP_CHECKSIG>>,
                                    Tail(pks))

\* The loop of build_multisig_script: every key after the first.
RECURSIVE ExtendCheckSigAdd(_, _)
ExtendCheckSigAdd(script_bytes, pks) ==
    IF pks = <<>> THEN script_bytes
    ELSE ExtendCheckSigAdd(script_bytes \o PushKey(Head(pks)) \o <<OP_CHECKSIGADD>>,
                           Tail(pks))

\* Mutant: the two branches of the verify flag exchanged.
ThresholdScript_FlagSwapped(n, verify) ==
    IF verify THEN PushInt(n) \o <<OP_NUMEQUAL>>
    ELSE PushInt(n) \o <<OP_NUMEQUALVERIFY>>

ThresholdScript(n, verify) ==
    IF verify THEN PushInt(n) \o <<OP_NUMEQUALVERIFY>>
    ELSE PushInt(n) \o <<OP_NUMEQUAL>>

MultisigBody(pubkeys, verify) ==
    LET n == Len(pubkeys)
        first == PushKey(pubkeys[1]) \o <<OP_CHECKSIG>>
        withAdds == ExtendCheckSigAdd(first, Tail(pubkeys))
    IN  withAdds \o ThresholdScript(n, verify)

\* Mutant: no emptiness check; an empty list yields the bare threshold check.
build_multisig_script_NoEmptyCheck(pubkeys, verify) ==
    IF pubkeys = <<>>
    THEN Ok(ThresholdScript(0, verify))
    ELSE Ok(MultisigBody(pubkeys, verify))

build_multisig_script(pubkeys, verify) ==
    IF pubkeys = <<>>
    THEN Err("At least one public key is required for multisig")
    ELSE Ok(MultisigBody(pubkeys, verify))

combine_script_components(components) == Concat(components)

(***************************************************************************)
(* connectors/pegin_payout.rs                                              *)
(***************************************************************************)
NoConnector == [tag |-> "None"]

SomeConnector(depositor, vault_provider, vault_keepers, universal_challengers) ==
    [tag |-> "Some",
     depositor |-> depositor,
     vault_provider |-> vault_provider,
     vault_keepers |-> vault_keepers,
     universal_challengers |-> universal_challengers]

\* Mutant: the emptiness check is made on the merged list, not on the keepers.
PeginPayoutConnector_new_MergedCheck(depositor, vault_provider, vault_keepers, universal_challengers) ==
    IF vault_keepers \o universal_challengers = <<>>
    THEN Err("At least one vault keeper is required")
    ELSE Ok(SomeConnector(depositor, vault_provider, vault_keepers, universal_challengers))

\* Mutant: no emptiness check at all.
PeginPayoutConnector_new_NoCheck(depositor, vault_provider, vault_keepers, universal_challengers) ==
    Ok(SomeConnector(depositor, vault_provider, vault_keepers, universal_challengers))

PeginPayoutConnector_new(depositor, vault_provider, vault_keepers, universal_challengers) ==
    IF vault_keepers = <<>>
    THEN Err("At least one vault keeper is required")
    ELSE Ok(SomeConnector(depositor, vault_provider, vault_keepers, universal_challengers))

RoleSigs(self) ==
    PushKey(self.depositor) \o <<OP_CHECKSIGVERIFY>>
        \o PushKey(self.vault_provider) \o <<OP_CHECKSIGVERIFY>>

\* The keys of s, each once, in order of first occurrence.
RECURSIVE Dedup(_, _)
Dedup(s, seen) ==
    IF s = <<>> THEN <<>>
    ELSE IF Head(s) \in seen THEN Dedup(Tail(s), seen)
    ELSE <<Head(s)>> \o Dedup(Tail(s), seen \cup {Head(s)})

\* The keys of s in ascending order of their first byte.
RECURSIVE SortKeys(_)
SortKeys(s) ==
    IF s = <<>> THEN <<>>
    ELSE LET m == CHOOSE i \in 1..Len(s) : \A j \in 1..Len(s) : s[i][1] <= s[j][1]
         IN  <<s[m]>> \o SortKeys(SubSeq(s, 1, m - 1) \o SubSeq(s, m + 1, Len(s)))

\* Mutant: the challengers are merged before the keepers.
AllChallengers_ChallengersFirst(self) == self.universal_challengers \o self.vault_keepers

\* Mutant: the challengers are put in a canonical (sorted) order.
AllChallengers_Sorted(self) == self.vault_keepers \o SortKeys(self.universal_challengers)

\* Mutant: repeated keys of the merged list are dropped.
AllChallengers_Dedup(self) == Dedup(self.vault_keepers \o self.universal_challengers, {})

AllChallengers(self) == self.vault_keepers \o self.universal_challengers

generate_payout_script(self) ==
    LET role_sigs == RoleSigs(self)
        challenger_multisig == build_multisig_script(AllChallengers(self), FALSE)
    IN  IF challenger_multisig.tag = "Ok"
        THEN Ok(combine_script_components(<<role_sigs, challenger_multisig.val>>))
        ELSE Panic("Failed to build challenger multisig script")

LeafVersionTapScript == 192

\* TapNodeHash::from_script: the tagged hash of (leaf version, script), symbolic.
TapNodeHash_from_script(script, leaf_version) ==
    [hash |-> "TapLeaf", leaf_version |-> leaf_version, script |-> script]

generate_taproot_script_hash(self) ==
    LET payout_script == generate_payout_script(self)
    IN  IF payout_script.tag = "Ok"
        THEN Ok(TapNodeHash_from_script(payout_script.val, LeafVersionTapScript))
        ELSE payout_script

\* TaprootBuilder: one leaf at depth 0, finalized over the unspendable internal
\* key; the output key is the internal key tweaked by the merkle root (symbolic).
generate_taproot_spend_info(self) ==
    LET payout_script == generate_payout_script(self)
    IN  IF payout_script.tag = "Ok"
        THEN LET root == TapNodeHash_from_script(payout_script.val, LeafVersionTapScript)
             IN  Ok([internal_key |-> UNSPENDABLE_PUBKEY,
                     merkle_root |-> root,
                     output_key |-> [hash |-> "TapTweak",
                                     internal_key |-> UNSPENDABLE_PUBKEY,
                                     merkle_root |-> root]])
        ELSE payout_script

(***************************************************************************)
(* connectors/mod.rs: trait Connector                                      *)
(***************************************************************************)
Networks == {"Bitcoin", "Testnet", "Regtest", "Signet"}

\* The human-readable part Address::p2tr_tweaked keeps for a network.
KnownHrp(network) ==
    IF network = "Bitcoin" THEN "bc"
    ELSE IF network = "Regtest" THEN "bcrt"
    ELSE "tb"

generate_taproot_address(self, network) ==
    LET info == generate_taproot_spend_info(self)
    IN  IF info.tag = "Ok"
        THEN Ok([hrp |-> KnownHrp(network), witness_version |-> 1,
                 program |-> info.val.output_key])
        ELSE info

\* Address::script_pubkey of a P2TR address: OP_1, push of the output key.
generate_taproot_script_pubkey(self, network) ==
    LET addr == generate_taproot_address(self, network)
    IN  IF addr.tag = "Ok"
        THEN Ok([witness_version |-> addr.val.witness_version,
                 program |-> addr.val.program])
        ELSE addr

(***************************************************************************)
(* Specification Spec: the life of one connector.  It is constructed once  *)
(* (a failed construction returns nothing and may be retried), then its    *)
(* generate_* methods are called in any order, any number of times.        *)
(***************************************************************************)
Init ==
    /\ connector = NoConnector
    /\ call = [op |-> "none"]
    /\ ret = Pending

New ==
    /\ connector = NoConnector
    /\ \E d \in Keys, p \in Keys,
          ks \in SeqsUpTo(KeeperKeys, 0, MaxKeepers),
          us \in SeqsUpTo(ChallengerKeys, 0, MaxChallengers) :
          LET r == PeginPayoutConnector_new(d, p, ks, us)
          IN  /\ call' = [op |-> "new", depositor |-> d, vault_provider |-> p,
                          vault_keepers |-> ks, universal_challengers |-> us]
              /\ ret' = r
              /\ connector' = IF r.tag = "Ok" THEN r.val ELSE connector

GeneratePayoutScript ==
    /\ connector # NoConnector
    /\ call' = [op |-> "generate_payout_script"]
    /\ ret' = generate_payout_script(connector)
    /\ UNCHANGED connector

GenerateTaprootScriptHash ==
    /\ connector # NoConnector
    /\ call' = [op |-> "generate_taproot_script_hash"]
    /\ ret' = generate_taproot_script_hash(connector)
    /\ UNCHANGED connector

GenerateTaprootSpendInfo ==
    /\ connector # NoConnector
    /\ call' = [op |-> "generate_taproot_spend_info"]
    /\ ret' = generate_taproot_spend_info(connector)
    /\ UNCHANGED connector

GenerateTaprootAddress ==
    /\ connector # NoConnector
    /\ \E network \in Networks :
          /\ call' = [op |-> "generate_taproot_address", network |-> network]
          /\ ret' = generate_taproot_address(connector, network)
    /\ UNCHANGED connector

GenerateTaprootScriptPubkey ==
    /\ connector # NoConnector
    /\ \E network \in Networks :
          /\ call' = [op |-> "generate_taproot_script_pubkey", network |-> network]
          /\ ret' = generate_taproot_script_pubkey(connector, network)
    /\ UNCHANGED connector

Next ==
    \/ New
    \/ GeneratePayoutScript
    \/ GenerateTaprootScriptHash
    \/ GenerateTaprootSpendInfo
    \/ GenerateTaprootAddress
    \/ GenerateTaprootScriptPubkey

Spec == Init /\ [][Next]_vars

(***************************************************************************)
(* Strings: sequences of one-character strings.                            *)
(***************************************************************************)
UpperAlphabet == <<"A", "B", "C", "D", "E", "F", "G", "H", "I", "J", "K", "L", "M">>
                    \o <<"N", "O", "P", "Q", "R", "S", "T", "U", "V", "W", "X", "Y", "Z">>

LowerAlphabet == <<"a", "b", "c", "d", "e", "f", "g", "h", "i", "j", "k", "l", "m">>
                    \o <<"n", "o", "p", "q", "r", "s", "t", "u", "v", "w", "x", "y", "z">>

IndexIn(s, c) == IF \E i \in 1..Len(s) : s[i] = c
                 THEN CHOOSE i \in 1..Len(s) : s[i] = c
                 ELSE 0

ToLowerChar(c) == IF IndexIn(UpperAlphabet, c) > 0
                  THEN LowerAlphabet[IndexIn(UpperAlphabet, c)]
                  ELSE c

ToUpperChar(c) == IF IndexIn(LowerAlphabet, c) > 0
                  THEN UpperAlphabet[IndexIn(LowerAlphabet, c)]
                  ELSE c

\* str::to_lowercase, on the characters the model uses.
to_lowercase(s) == [i \in 1..Len(s) |-> ToLowerChar(s[i])]

to_uppercase(s) == [i \in 1..Len(s) |-> ToUpperChar(s[i])]

HexDigits == <<"0", "1", "2", "3", "4", "5", "6", "7", "8", "9", "a", "b", "c", "d", "e", "f">>

\* The value of a hex digit of either case, -1 for any other character.
HexVal(c) == IndexIn(HexDigits, ToLowerChar(c)) - 1

\* The lower-case hex encoding of a byte sequence.
ToHex(bytes) ==
    [i \in 1..(2 * Len(bytes)) |->
        IF i % 2 = 1 THEN HexDigits[(bytes[(i + 1) \div 2] \div 16) + 1]
        ELSE HexDigits[(bytes[i \div 2] % 16) + 1]]

(***************************************************************************)
(* transactions/pegin.rs                                                   *)
(***************************************************************************)
NetBitcoin == <<"b", "i", "t", "c", "o", "i", "n">>

NetMainnet == <<"m", "a", "i", "n", "n", "e", "t">>

NetTestnet == <<"t", "e", "s", "t", "n", "e", "t">>

NetRegtest == <<"r", "e", "g", "t", "e", "s", "t">>

NetSignet == <<"s", "i", "g", "n", "e", "t">>

InvalidNetwork(s) == [kind |-> "InvalidNetwork", msg |-> s]

InvalidPublicKey(s) == [kind |-> "InvalidPublicKey", msg |-> s]

\* Display of the library's error for every string from_str rejects.
MalformedPublicKey ==
    <<"m", "a", "l", "f", "o", "r", "m", "e", "d">> \o <<" ">>
        \o <<"p", "u", "b", "l", "i", "c">> \o <<" ">> \o <<"k", "e", "y">>

ConnectorError(s) == [kind |-> "ConnectorError", msg |-> s]

parse_network(network) ==
    LET lower == to_lowercase(network)
    IN  IF lower \in {NetBitcoin, NetMainnet} THEN Ok("Bitcoin")
        ELSE IF lower = NetTestnet THEN Ok("Testnet")
        ELSE IF lower = NetRegtest THEN Ok("Regtest")
        ELSE IF lower = NetSignet THEN Ok("Signet")
        ELSE Err(InvalidNetwork(network))

\* XOnlyPublicKey::from_str: 64 hex digits of either case, decoded to 32 bytes
\* that must be the x-coordinate of a curve point.  The error message is
\* format!("{}: {}", hex, e): the string given, ": ", the library's text.
parse_pubkey(hex) ==
    IF Len(hex) # 64 \/ \E i \in 1..Len(hex) : HexVal(hex[i]) < 0
    THEN Err(InvalidPublicKey(hex \o <<":", " ">> \o MalformedPublicKey))
    ELSE LET bytes == [i \in 1..32 |-> 16 * HexVal(hex[2 * i - 1]) + HexVal(hex[2 * i])]
         IN  IF IsValidXCoord(bytes) THEN Ok(bytes)
             ELSE Err(InvalidPublicKey(hex \o <<":", " ">> \o MalformedPublicKey))

\* iter().map(parse_pubkey).collect::<Result<Vec<_>, _>>(): the keys in order, or
\* the error of the first string that does not parse.
RECURSIVE ParsePubkeys(_)
ParsePubkeys(strs) ==
    IF strs = <<>> THEN Ok(<<>>)
    ELSE LET first == parse_pubkey(Head(strs))
         IN  IF first.tag # "Ok" THEN first
             ELSE LET rest == ParsePubkeys(Tail(strs))
                  IN  IF rest.tag # "Ok" THEN rest
                      ELSE Ok(<<first.val>> \o rest.val)

\* The tail of new_unfunded_peg_in_tx: connector, output, transaction.
PegInFromParsed(network, depositor, vault_provider, vault_keepers, universal_challengers, pegin_amount) ==
    LET c == PeginPayoutConnector_new(depositor, vault_provider, vault_keepers,
                                      universal_challengers)
    IN  IF c.tag # "Ok" THEN Err(ConnectorError(c.err))
        ELSE LET spk == generate_taproot_script_pubkey(c.val, network)
             IN  IF spk.tag # "Ok" THEN spk
                 ELSE Ok([version |-> 2,
                          lock_time |-> 0,
                          input |-> <<>>,
                          output |-> <<[value |-> pegin_amount,
                                        script_pubkey |-> spk.val]>>])

\* Mutant: the keys are parsed before the network.
new_unfunded_peg_in_tx_KeysFirst(params) ==
    LET depositor == parse_pubkey(params.depositor_pubkey)
        vault_provider == parse_pubkey(params.vault_provider_pubkey)
        vault_keepers == ParsePubkeys(params.vault_keeper_pubkeys)
        universal_challengers == ParsePubkeys(params.universal_challenger_pubkeys)
        network == parse_network(params.network)
    IN  IF depositor.tag # "Ok" THEN depositor
        ELSE IF vault_provider.tag # "Ok" THEN vault_provider
        ELSE IF vault_keepers.tag # "Ok" THEN vault_keepers
        ELSE IF universal_challengers.tag # "Ok" THEN universal_challengers
        ELSE IF network.tag # "Ok" THEN network
        ELSE PegInFromParsed(network.val, depositor.val, vault_provider.val,
                             vault_keepers.val, universal_challengers.val,
                             params.pegin_amount)

\* Mutant: depositor and vault provider exchanged in the connector.
new_unfunded_peg_in_tx_RolesSwapped(params) ==
    LET network == parse_network(params.network)
        depositor == parse_pubkey(params.depositor_pubkey)
        vault_provider == parse_pubkey(params.vault_provider_pubkey)
        vault_keepers == ParsePubkeys(params.vault_keeper_pubkeys)
        universal_challengers == ParsePubkeys(params.universal_challenger_pubkeys)
    IN  IF network.tag # "Ok" THEN network
        ELSE IF depositor.tag # "Ok" THEN depositor
        ELSE IF vault_provider.tag # "Ok" THEN vault_provider
        ELSE IF vault_keepers.tag # "Ok" THEN vault_keepers
        ELSE IF universal_challengers.tag # "Ok" THEN universal_challengers
        ELSE PegInFromParsed(network.val, vault_provider.val, depositor.val,
                             vault_keepers.val, universal_challengers.val,
                             params.pegin_amount)

new_unfunded_peg_in_tx(params) ==
    LET network == parse_network(params.network)
        depositor == parse_pubkey(params.depositor_pubkey)
        vault_provider == parse_pubkey(params.vault_provider_pubkey)
        vault_keepers == ParsePubkeys(params.vault_keeper_pubkeys)
        universal_challengers == ParsePubkeys(params.universal_challenger_pubkeys)
    IN  IF network.tag # "Ok" THEN network
        ELSE IF depositor.tag # "Ok" THEN depositor
        ELSE IF vault_provider.tag # "Ok" THEN vault_provider
        ELSE IF vault_keepers.tag # "Ok" THEN vault_keepers
        ELSE IF universal_challengers.tag # "Ok" THEN universal_challengers
        ELSE PegInFromParsed(network.val, depositor.val, vault_provider.val,
                             vault_keepers.val, universal_challengers.val,
                             params.pegin_amount)

(***************************************************************************)
(* Specification SpecPegin: new_unfunded_peg_in_tx and parse_network as    *)
(* pure functions.  The initial states draw the arguments; the actions     *)
(* apply the function named by the call.                                   *)
(***************************************************************************)
StrG == ToHex(KeyG)

Str2GUpper == to_uppercase(ToHex(Key2G))

Str3G == ToHex(Key3G)

Str4G == ToHex(Key4G)

\* Malformed key strings: 63 characters, no curve point, a non-hex character.
StrShort == SubSeq(StrG, 1, 63)

StrNotOnCurve == ToHex(NotOnCurve)

StrNotHex == <<"g">> \o SubSeq(StrG, 2, 64)

DepositorStrs == {StrG, Str2GUpper, StrShort}

VaultProviderStrs == {StrG, Str2GUpper, Str4G, StrNotHex}

KeeperStrs == {StrG, Str2GUpper, StrShort}

ChallengerStrs == {Str3G, StrNotOnCurve}

\* u64 amounts; the code stores the amount and computes nothing from it.
Amounts == {100000, 2147483647}

RecognisedNames == {NetBitcoin, NetMainnet, NetTestnet, NetRegtest, NetSignet}

\* Every upper/lower-case spelling of a name.
Spellings(name) ==
    {[i \in 1..Len(name) |-> IF i \in up THEN ToUpperChar(name[i]) ELSE name[i]] :
        up \in SUBSET (1..Len(name))}

UnrecognisedNetworks ==
    {<<"m", "a", "i", "n", "e", "t">>,
     <<"t", "e", "s", "t", "n", "e", "t", "3">>,
     <<"m", "a", "i", "n">>,
     <<"l", "i", "v", "e", "n", "e", "t">>,
     <<"b", "i", "t", "c", "o", "i", "n", " ">>,
     <<"s", "i", "g", "n", "e">>,
     <<>>}

ParseNetworkInputs == (UNION {Spellings(name) : name \in RecognisedNames})
                          \cup UnrecognisedNetworks

PegInNetworks ==
    {NetTestnet,
     <<"M", "a", "i", "n", "n", "e", "t">>,
     <<"B", "I", "T", "C", "O", "I", "N">>,
     <<"r", "e", "g", "T", "e", "s", "t">>,
     <<"s", "i", "g", "n", "e", "t">>,
     <<"m", "a", "i", "n", "e", "t">>}

PegInParams ==
    [depositor_pubkey : DepositorStrs,
     vault_provider_pubkey : VaultProviderStrs,
     vault_keeper_pubkeys : SeqsUpTo(KeeperStrs, 0, MaxKeeperStrs),
     universal_challenger_pubkeys : SeqsUpTo(ChallengerStrs, 0, MaxChallengerStrs),
     pegin_amount : Amounts,
     network : PegInNetworks]

InitPegin ==
    /\ connector = NoConnector
    /\ call \in {[op |-> "new_unfunded_peg_in_tx", params |-> params] : params \in PegInParams}
                   \cup {[op |-> "parse_network", network |-> s] : s \in ParseNetworkInputs}
    /\ ret = Pending

NewUnfundedPegInTx ==
    /\ ret = Pending
    /\ call.op = "new_unfunded_peg_in_tx"
    /\ ret' = new_unfunded_peg_in_tx(call.params)
    /\ UNCHANGED <<connector, call>>

ParseNetwork ==
    /\ ret = Pending
    /\ call.op = "parse_network"
    /\ ret' = parse_network(call.network)
    /\ UNCHANGED <<connector, call>>

NextPegin ==
    \/ NewUnfundedPegInTx
    \/ ParseNetwork

SpecPegin == InitPegin /\ [][NextPegin]_vars

(***************************************************************************)
(* Specification SpecMultisig: build_multisig_script as a pure function.   *)
(* The initial states draw its arguments; the one action applies it.       *)
(***************************************************************************)
MaxLongKeys == 17

KeyOrder == <<KeyG, Key2G, Key3G>>

CyclicKeys(n) == [i \in 1..n |-> KeyOrder[(i % 3) + 1]]

\* Short lists of every shape, and long ones around the length where the
\* encoding of the pushed count changes (16/17: opcode to data push).
MultisigInputs ==
    SeqsUpTo(Keys, 0, MaxMultisigKeys) \cup {CyclicKeys(n) : n \in 15..MaxLongKeys}

InitMultisig ==
    /\ connector = NoConnector
    /\ call \in {[op |-> "build_multisig_script", pubkeys |-> pks, verify |-> v] :
                    pks \in MultisigInputs, v \in BOOLEAN}
    /\ ret = Pending

BuildMultisigScript ==
    /\ ret = Pending
    /\ call.op = "build_multisig_script"
    /\ ret' = build_multisig_script(call.pubkeys, call.verify)
    /\ UNCHANGED <<connector, call>>

NextMultisig == BuildMultisigScript

SpecMultisig == InitMultisig /\ [][NextMultisig]_vars

(***************************************************************************)
(* Reading a script back: its instruction sequence.                        *)
(***************************************************************************)
PushInstr(data) == [kind |-> "Push", op |-> Len(data), data |-> data]

OpInstr(op) == [kind |-> "Op", op |-> op, data |-> <<>>]

RECURSIVE Instructions(_)
Instructions(b) ==
    IF b = <<>> THEN <<>>
    ELSE IF b[1] \in 1..(OP_PUSHDATA1 - 1)
    THEN IF Len(b) < b[1] + 1
         THEN <<[kind |-> "Invalid", op |-> b[1], data |-> Tail(b)]>>
         ELSE <<PushInstr(SubSeq(b, 2, b[1] + 1))>>
                  \o Instructions(SubSeq(b, b[1] + 2, Len(b)))
    ELSE <<OpInstr(b[1])>> \o Instructions(Tail(b))

\* The value of a script number (little-endian, sign in the top bit of the
\* last byte).
RECURSIVE LeValue(_)
LeValue(b) == IF b = <<>> THEN 0 ELSE b[1] + 256 * LeValue(Tail(b))

ScriptNum(b) ==
    IF b = <<>> THEN 0
    ELSE IF b[Len(b)] >= 128
    THEN 0 - LeValue(SubSeq(b, 1, Len(b) - 1) \o <<b[Len(b)] - 128>>)
    ELSE LeValue(b)

\* The instruction pushes the integer n.
IsPushInt(ins, n) ==
    \/ ins.kind = "Op" /\ n \in 1..16 /\ ins.op = OP_TRUE + n - 1
    \/ ins.kind = "Op" /\ n = 0 /\ ins.op = OP_0
    \/ ins.kind = "Push" /\ Len(ins.data) <= 4 /\ ScriptNum(ins.data) = n

CountOp(ins, op) == Cardinality({i \in 1..Len(ins) : ins[i].kind = "Op" /\ ins[i].op = op})

(***************************************************************************)
(* Tapscript execution (BIP 342) of the opcodes these scripts use.         *)
(* A stack item is a byte vector or a signature made by the holder of a    *)
(* key; the top of the stack is the last element.                          *)
(***************************************************************************)
Item(b) == [t |-> "bytes", v |-> b]

SigBy(pk) == [t |-> "sig", v |-> pk]

EmptyItem == Item(<<>>)

Truthy(item) == item.t = "sig" \/ \E i \in 1..Len(item.v) : item.v[i] \notin {0, 128}

ExecOk == [ok |-> TRUE, reason |-> "success", at |-> 0]

ExecFail(reason, op) == [ok |-> FALSE, reason |-> reason, at |-> op]

\* The outcome of one signature check: "valid", "empty" (no signature given:
\* the check yields false) or "abort" (a non-empty signature that does not
\* verify, or an empty public key, fails the script at once).
SigCheck(pubkey, sig) ==
    IF pubkey.t # "bytes" \/ pubkey.v = <<>> THEN "abort"
    ELSE IF sig = EmptyItem THEN "empty"
    ELSE IF Len(pubkey.v) # 32 THEN "valid"
    ELSE IF sig.t = "sig" /\ sig.v = pubkey.v THEN "valid"
    ELSE "abort"

IsNum(item) == item.t = "bytes" /\ Len(item.v) <= 4

RECURSIVE Run(_, _, _)
Run(ins, stack, last) ==
    IF ins = <<>>
    THEN IF Len(stack) # 1 THEN ExecFail("cleanstack", last)
         ELSE IF Truthy(stack[1]) THEN ExecOk
         ELSE ExecFail("false", last)
    ELSE
    LET i == Head(ins)
        rest == Tail(ins)
        n == Len(stack)
    IN  IF i.kind = "Invalid" THEN ExecFail("parse", i.op)
        ELSE IF i.kind = "Push" THEN Run(rest, Append(stack, Item(i.data)), i.op)
        ELSE IF i.op = OP_0 THEN Run(rest, Append(stack, EmptyItem), i.op)
        ELSE IF i.op \in OP_TRUE..(OP_TRUE + 15)
        THEN Run(rest, Append(stack, Item(<<i.op - OP_TRUE + 1>>)), i.op)
        ELSE IF i.op \in {OP_CHECKSIG, OP_CHECKSIGVERIFY}
        THEN IF n < 2 THEN ExecFail("stack", i.op)
             ELSE LET c == SigCheck(stack[n], stack[n - 1])
                      below == SubSeq(stack, 1, n - 2)
                  IN  IF c = "abort" THEN ExecFail("sig", i.op)
                      ELSE IF i.op = OP_CHECKSIG
                      THEN Run(rest,
                               Append(below, IF c = "valid" THEN Item(<<1>>) ELSE EmptyItem),
                               i.op)
                      ELSE IF c = "valid" THEN Run(rest, below, i.op)
                      ELSE ExecFail("verify", i.op)
        ELSE IF i.op = OP_CHECKSIGADD
        THEN IF n < 3 THEN ExecFail("stack", i.op)
             ELSE IF ~IsNum(stack[n - 1]) THEN ExecFail("num", i.op)
             ELSE LET c == SigCheck(stack[n], stack[n - 2])
                      acc == ScriptNum(stack[n - 1].v)
                      below == SubSeq(stack, 1, n - 3)
                  IN  IF c = "abort" THEN ExecFail("sig", i.op)
                      ELSE Run(rest,
                               Append(below,
                                      Item(ScriptIntVec(IF c = "valid" THEN acc + 1 ELSE acc))),
                               i.op)
        ELSE IF i.op \in {OP_NUMEQUAL, OP_NUMEQUALVERIFY}
        THEN IF n < 2 THEN ExecFail("stack", i.op)
             ELSE IF ~IsNum(stack[n]) \/ ~IsNum(stack[n - 1]) THEN ExecFail("num", i.op)
             ELSE LET eq == ScriptNum(stack[n].v) = ScriptNum(stack[n - 1].v)
                      below == SubSeq(stack, 1, n - 2)
                  IN  IF i.op = OP_NUMEQUAL
                      THEN Run(rest, Append(below, IF eq THEN Item(<<1>>) ELSE EmptyItem), i.op)
                      ELSE IF eq THEN Run(rest, below, i.op)
                      ELSE ExecFail("verify", i.op)
        ELSE ExecFail("opcode", i.op)

Execute(script, witness) == Run(Instructions(script), witness, 0)

\* The initial stack for signature slots given in script order: the slot of
\* the first key checked is on top.
WitnessStack(slots) == [i \in 1..Len(slots) |-> slots[Len(slots) + 1 - i]]

\* The keys of a connector in the order its script checks them.
ScriptKeys(self) ==
    <<self.depositor, self.vault_provider>> \o self.vault_keepers \o self.universal_challengers

\* One slot per key: a valid signature where present[i], empty otherwise.
SlotsFor(keys, present) ==
    [i \in 1..Len(keys) |-> IF present[i] THEN SigBy(keys[i]) ELSE EmptyItem]

\* The witness the holders of the keys in signers produce for a key order.
SlotsBy(keys, signers) ==
    [i \in 1..Len(keys) |-> IF keys[i] \in signers THEN SigBy(keys[i]) ELSE EmptyItem]

(***************************************************************************)
(* Claims on build_multisig_script (SpecMultisig).                         *)
(***************************************************************************)
MultisigReturned == call.op = "build_multisig_script" /\ ret # Pending

\* C3: for a non-empty key list of length n, build_multisig_script returns Ok
\* with the instructions push key[0], OP_CHECKSIG, then push key[i],
\* OP_CHECKSIGADD for i = 1..n-1 in list order (so exactly one OP_CHECKSIG and
\* n-1 OP_CHECKSIGADD), then a push of the integer n, then OP_NUMEQUALVERIFY
\* when verify is set and OP_NUMEQUAL when not; the script for the other flag
\* value differs in its last byte and nowhere else.
C3_MultisigLayout ==
    (MultisigReturned /\ call.pubkeys # <<>>) =>
        /\ ret.tag = "Ok"
        /\ LET n == Len(call.pubkeys)
               ins == Instructions(ret.val)
               other == build_multisig_script(call.pubkeys, ~call.verify)
               len == Len(ret.val)
           IN  /\ Len(ins) = 2 * n + 2
               /\ ins[1] = PushInstr(call.pubkeys[1])
               /\ ins[2] = OpInstr(OP_CHECKSIG)
               /\ \A i \in 2..n :
                     /\ ins[2 * i - 1] = PushInstr(call.pubkeys[i])
                     /\ ins[2 * i] = OpInstr(OP_CHECKSIGADD)
               /\ CountOp(ins, OP_CHECKSIG) = 1
               /\ CountOp(ins, OP_CHECKSIGADD) = n - 1
               /\ IsPushInt(ins[2 * n + 1], n)
               /\ ins[2 * n + 2] =
                     OpInstr(IF call.verify THEN OP_NUMEQUALVERIFY ELSE OP_NUMEQUAL)
               /\ other.tag = "Ok"
               /\ Len(other.val) = len
               /\ \A i \in 1..(len - 1) : other.val[i] = ret.val[i]
               /\ other.val[len] # ret.val[len]
               /\ {other.val[len], ret.val[len]} = {OP_NUMEQUAL, OP_NUMEQUALVERIFY}

\* A list of 17 keys (the count no longer fits an OP_n opcode), verify set.
C3_Witness ==
    /\ MultisigReturned
    /\ Len(call.pubkeys) = 17
    /\ call.verify
    /\ ret.tag = "Ok"

\* C7: build_multisig_script on the empty key list returns its error, for
\* both values of verify, and no script.
C7_EmptyKeySet ==
    (MultisigReturned /\ call.pubkeys = <<>>) =>
        ret = Err("At least one public key is required for multisig")

C7_Witness ==
    /\ MultisigReturned
    /\ call.pubkeys = <<>>
    /\ call.verify
    /\ ret.tag = "Err"

(***************************************************************************)
(* Claims on the connector (Spec).                                         *)
(***************************************************************************)
PayoutScriptReturned == call.op = "generate_payout_script"

\* The i-th key of the merged list: the keepers, then the challengers.
MergedKey(self, j) ==
    IF j <= Len(self.vault_keepers) THEN self.vault_keepers[j]
    ELSE self.universal_challengers[j - Len(self.vault_keepers)]

MergedLen(self) == Len(self.vault_keepers) + Len(self.universal_challengers)

ExpectedPayoutInstr(self, i) ==
    IF i = 1 THEN PushInstr(self.depositor)
    ELSE IF i = 3 THEN PushInstr(self.vault_provider)
    ELSE IF i \in {2, 4} THEN OpInstr(OP_CHECKSIGVERIFY)
    ELSE IF i = 6 THEN OpInstr(OP_CHECKSIG)
    ELSE IF i % 2 = 1 THEN PushInstr(MergedKey(self, (i - 3) \div 2))
    ELSE OpInstr(OP_CHECKSIGADD)

\* C1: generate_payout_script returns exactly push D, OP_CHECKSIGVERIFY,
\* push P, OP_CHECKSIGVERIFY, push K_0, OP_CHECKSIG, then push key,
\* OP_CHECKSIGADD for each further key of the merged list (keepers then
\* challengers, each in its order), then push of the integer N+M, OP_NUMEQUAL.
C1_PayoutScriptLayout ==
    PayoutScriptReturned =>
        /\ ret.tag = "Ok"
        /\ LET ins == Instructions(ret.val)
               L == MergedLen(connector)
           IN  /\ Len(ins) = 2 * L + 6
               /\ \A i \in 1..(2 * L + 4) : ins[i] = ExpectedPayoutInstr(connector, i)
               /\ IsPushInt(ins[2 * L + 5], L)
               /\ ins[2 * L + 6] = OpInstr(OP_NUMEQUAL)

\* Two keepers and two challengers, all four in distinct positions of the script.
C1_Witness ==
    /\ PayoutScriptReturned
    /\ ret.tag = "Ok"
    /\ connector.vault_keepers = <<KeyG, Key2G>>
    /\ connector.universal_challengers = <<Key3G, Key2G>>

\* C2: over a witness with one slot per key in script order, each holding a
\* valid signature for its key or nothing, the payout script succeeds exactly
\* when every slot is filled; with the depositor's or vault provider's slot
\* empty it aborts at OP_CHECKSIGVERIFY, and with only keeper/challenger slots
\* empty it ends false at OP_NUMEQUAL.
C2_AllMustSign ==
    PayoutScriptReturned =>
        /\ ret.tag = "Ok"
        /\ LET keys == ScriptKeys(connector)
           IN  \A present \in [1..Len(keys) -> BOOLEAN] :
                  LET r == Execute(ret.val, WitnessStack(SlotsFor(keys, present)))
                  IN  /\ r.ok <=> \A i \in 1..Len(keys) : present[i]
                      /\ (~present[1] \/ ~present[2]) =>
                            r = ExecFail("verify", OP_CHECKSIGVERIFY)
                      /\ (present[1] /\ present[2] /\ \E i \in 3..Len(keys) : ~present[i]) =>
                            r = ExecFail("false", OP_NUMEQUAL)

C2_Witness ==
    /\ PayoutScriptReturned
    /\ ret.tag = "Ok"
    /\ Len(connector.vault_keepers) = 2
    /\ Len(connector.universal_challengers) = 2
    /\ Execute(ret.val, WitnessStack(SlotsBy(ScriptKeys(connector), Keys))).ok
    /\ ~Execute(ret.val,
                WitnessStack(SlotsBy(ScriptKeys(connector),
                                     Keys \ {connector.universal_challengers[2]}))).ok

\* C4: new fails, with its one error, exactly when the keeper list is empty,
\* whatever the other arguments; otherwise it returns a connector holding the
\* four arguments unchanged (repeated keys included).
C4_NewFailsIffNoKeepers ==
    call.op = "new" =>
        /\ ret.tag \in {"Ok", "Err"}
        /\ ret.tag = "Err" <=> call.vault_keepers = <<>>
        /\ ret.tag = "Err" =>
              /\ ret.err = "At least one vault keeper is required"
              /\ connector = NoConnector
        /\ ret.tag = "Ok" =>
              /\ connector = ret.val
              /\ ret.val.depositor = call.depositor
              /\ ret.val.vault_provider = call.vault_provider
              /\ ret.val.vault_keepers = call.vault_keepers
              /\ ret.val.universal_challengers = call.universal_challengers

\* No keeper, two challengers: construction failed.
C4_Witness ==
    /\ call.op = "new"
    /\ call.vault_keepers = <<>>
    /\ Len(call.universal_challengers) = 2
    /\ ret.tag = "Err"

Bijections(D) == {f \in [D -> D] : {f[x] : x \in D} = D}

\* The rearrangements of a sequence.
Perms(s) ==
    {[i \in 1..Len(s) |-> s[f[i]]] : f \in Bijections(1..Len(s))}

Satisfies(self, script, signers) ==
    Execute(script, WitnessStack(SlotsBy(ScriptKeys(self), signers))).ok

\* C8: with depositor, vault provider and keepers fixed, every reordering of
\* the challengers to a different sequence gives different script bytes, while
\* for any set of signing keys (the complete one included, which satisfies
\* both) the two scripts are satisfied alike.
C8_ChallengerOrder ==
    PayoutScriptReturned =>
        /\ ret.tag = "Ok"
        /\ \A us \in Perms(connector.universal_challengers) :
              LET other == [connector EXCEPT !.universal_challengers = us]
                  script == generate_payout_script(other)
              IN  /\ script.tag = "Ok"
                  /\ us # connector.universal_challengers => script.val # ret.val
                  /\ Satisfies(connector, ret.val, Keys)
                  /\ Satisfies(other, script.val, Keys)
                  /\ \A signers \in SUBSET Keys :
                        Satisfies(connector, ret.val, signers)
                            <=> Satisfies(other, script.val, signers)

\* Two distinct challengers: there is a reordering.
C8_Witness ==
    /\ PayoutScriptReturned
    /\ ret.tag = "Ok"
    /\ connector.universal_challengers = <<Key2G, Key3G>>

\* C9: a merged list with repeated keys is accepted and the pushed threshold
\* is still N+M, but the script is satisfied by the signatures of exactly
\* those sets of key holders that include the depositor, the vault provider
\* and every distinct key of the merged list: the distinct signers needed for
\* the multisig part number the distinct keys, fewer than N+M under repeats.
C9_DuplicatesLowerThreshold ==
    PayoutScriptReturned =>
        /\ ret.tag = "Ok"
        /\ LET ins == Instructions(ret.val)
               L == MergedLen(connector)
               distinct == {MergedKey(connector, j) : j \in 1..L}
               Sat(signers) == Satisfies(connector, ret.val, signers)
           IN  /\ IsPushInt(ins[Len(ins) - 1], L)
               /\ \A signers \in SUBSET Keys :
                     Sat(signers) <=>
                        ({connector.depositor, connector.vault_provider} \cup distinct)
                            \subseteq signers
               /\ \A signers \in SUBSET Keys :
                     Sat(signers) => Cardinality(signers \cap distinct) >= Cardinality(distinct)
               /\ \E signers \in SUBSET Keys :
                     /\ Sat(signers)
                     /\ Cardinality(signers \cap distinct) = Cardinality(distinct)
               /\ Cardinality(distinct) < L =>
                     \E signers \in SUBSET Keys :
                        Sat(signers) /\ Cardinality(signers \cap distinct) < L

\* Key2G is keeper and challenger: three slots, two distinct keys.
C9_Witness ==
    /\ PayoutScriptReturned
    /\ ret.tag = "Ok"
    /\ connector.vault_keepers = <<KeyG, Key2G>>
    /\ connector.universal_challengers = <<Key2G>>
    /\ Satisfies(connector, ret.val,
                 {connector.depositor, connector.vault_provider, KeyG, Key2G})

\* C10: once a connector exists, every call of a generate_* method finds the
\* merged key list non-empty, returns normally (no panic) and leaves the four
\* fields as they were.
C10_NoPanicFieldsKept ==
    [][connector # NoConnector =>
          /\ connector' = connector
          /\ AllChallengers(connector) # <<>>
          /\ call'.op \in {"generate_payout_script", "generate_taproot_script_hash",
                           "generate_taproot_spend_info", "generate_taproot_address",
                           "generate_taproot_script_pubkey"}
          /\ ret'.tag = "Ok"]_vars

C10_Witness ==
    /\ connector # NoConnector
    /\ call.op = "generate_taproot_script_pubkey"
    /\ ret.tag = "Ok"
    /\ connector.universal_challengers = <<>>

(***************************************************************************)
(* Claims on the PegIn transaction builder (SpecPegin).                    *)
(***************************************************************************)
PegInReturned == call.op = "new_unfunded_peg_in_tx" /\ ret # Pending

\* s is an upper/lower-case spelling of name.
IsSpellingOf(s, name) ==
    /\ Len(s) = Len(name)
    /\ \A i \in 1..Len(name) : s[i] \in {name[i], ToUpperChar(name[i])}

Recognised(s) == \E name \in RecognisedNames : IsSpellingOf(s, name)

NetworkOf(name) ==
    IF name \in {NetBitcoin, NetMainnet} THEN "Bitcoin"
    ELSE IF name = NetTestnet THEN "Testnet"
    ELSE IF name = NetRegtest THEN "Regtest"
    ELSE "Signet"

AllParse(strs) == \A i \in 1..Len(strs) : parse_pubkey(strs[i]).tag = "Ok"

ParsedKeys(strs) == [i \in 1..Len(strs) |-> parse_pubkey(strs[i]).val]

\* C5: new_unfunded_peg_in_tx succeeds exactly for a recognised network, key
\* strings that all parse and at least one keeper; the transaction then has
\* version 2, lock time 0, no input and one output, of the requested amount,
\* paying to the script-pubkey of a connector built from the same parsed keys
\* in the same order, for the parsed network.
C5_UnfundedPegInTx ==
    PegInReturned =>
        LET params == call.params
            valid == /\ Recognised(params.network)
                     /\ parse_pubkey(params.depositor_pubkey).tag = "Ok"
                     /\ parse_pubkey(params.vault_provider_pubkey).tag = "Ok"
                     /\ AllParse(params.vault_keeper_pubkeys)
                     /\ AllParse(params.universal_challenger_pubkeys)
                     /\ params.vault_keeper_pubkeys # <<>>
        IN  /\ ret.tag = "Ok" <=> valid
            /\ ret.tag = "Ok" =>
                  LET own == PeginPayoutConnector_new(
                                 parse_pubkey(params.depositor_pubkey).val,
                                 parse_pubkey(params.vault_provider_pubkey).val,
                                 ParsedKeys(params.vault_keeper_pubkeys),
                                 ParsedKeys(params.universal_challenger_pubkeys)).val
                      network == NetworkOf(CHOOSE name \in RecognisedNames :
                                              IsSpellingOf(params.network, name))
                  IN  /\ ret.val.version = 2
                      /\ ret.val.lock_time = 0
                      /\ ret.val.input = <<>>
                      /\ Len(ret.val.output) = 1
                      /\ ret.val.output[1].value = params.pegin_amount
                      /\ ret.val.output[1].script_pubkey =
                            generate_taproot_script_pubkey(own, network).val

\* Distinct depositor and vault provider (one given in upper-case hex), two
\* keepers, a challenger, the largest amount, a mixed-case network name.
C5_Witness ==
    /\ PegInReturned
    /\ ret.tag = "Ok"
    /\ call.params.depositor_pubkey = StrG
    /\ call.params.vault_provider_pubkey = Str2GUpper
    /\ Len(call.params.vault_keeper_pubkeys) = 2
    /\ call.params.universal_challenger_pubkeys = <<Str3G>>
    /\ call.params.pegin_amount = 2147483647
    /\ call.params.network = <<"r", "e", "g", "T", "e", "s", "t">>

\* C6: with a network string whose lower-casing is none of the five names,
\* new_unfunded_peg_in_tx returns InvalidNetwork carrying the string as given
\* (and no transaction), whatever the keys and the keeper list; and every
\* upper/lower-case spelling of the five names is accepted, by parse_network
\* and as the network of an otherwise valid request.
C6_NetworkValidatedFirst ==
    /\ (PegInReturned /\ to_lowercase(call.params.network) \notin RecognisedNames) =>
          ret = Err(InvalidNetwork(call.params.network))
    /\ (PegInReturned /\ Recognised(call.params.network)) =>
          ~(ret.tag = "Err" /\ ret.err.kind = "InvalidNetwork")
    /\ (call.op = "parse_network" /\ ret # Pending) =>
          /\ \A name \in RecognisedNames :
                IsSpellingOf(call.network, name) => ret = Ok(NetworkOf(name))
          /\ to_lowercase(call.network) \notin RecognisedNames =>
                ret = Err(InvalidNetwork(call.network))
          /\ ret.tag = "Ok" <=> Recognised(call.network)

\* A misspelt network together with a malformed depositor key and no keeper.
C6_Witness ==
    /\ PegInReturned
    /\ call.params.network = <<"m", "a", "i", "n", "e", "t">>
    /\ call.params.depositor_pubkey = StrShort
    /\ call.params.vault_keeper_pubkeys = <<>>
    /\ ret.tag = "Err"
    /\ ret.err.kind = "InvalidNetwork"

====
